---------------------------- MODULE Spec2Model ----------------------------
(***************************************************************************)
(* Model of pygmt.src.sphinterpolate.sphinterpolate: the temp-file         *)
(* mediated call/return protocol around the external GMT module.           *)
(*                                                                         *)
(* One call is a straight line of steps (pc = the source line about to be  *)
(* executed, "xNN" = the exit of the with-block opened at line NN).  The   *)
(* file system, the session, the virtual file and the value handed back    *)
(* to the caller are the state.  The helpers imported from pygmt.helpers   *)
(* and pygmt.clib are operators of their own, so that the steps of the     *)
(* function read like its source.                                          *)
(***************************************************************************)
EXTENDS Naturals, Sequences, FiniteSets

VARIABLES
    pc,          \* position in sphinterpolate ("idle" between calls)
    opts,        \* the keyword arguments as the caller wrote them
    table,       \* the positional argument
    kwargs,      \* kwargs inside the function (short-form keys)
    kind,        \* local: data_kind(table)
    outgrid,     \* local: kwargs["G"]
    arg_str,     \* local: the argument string handed to the module
    fs,          \* file system: path -> what is stored there
    sessionOpen, \* a clib Session is open
    vfOpen,      \* the virtual file of the table is exposed
    gridOpen,    \* xr.open_dataarray handle is open
    result,      \* local: result
    exc,         \* the exception in flight / raised to the caller
    invoked,     \* number of lib.call_module calls in this call
    log,         \* the steps of this call, in order
    ncalls       \* calls made so far

vars == <<pc, opts, table, kwargs, kind, outgrid, arg_str, fs, sessionOpen,
          vfOpen, gridOpen, result, exc, invoked, log, ncalls>>

---------------------------------------------------------------------------
(* Bounds and values *)

MaxCalls == 2

None == "None"
Unset == "unset"
NoExc == "none"

TmpName == "/tmp/pygmt-xxxx.nc"
UserPath == "out.nc"
Paths == {TmpName, UserPath}

Absent == "absent"
Empty == "empty"
Partial == "partial"
Grid == "grid"

\* what a caller may pass as outgrid: None, an empty string, a path of
\* their own, or a string equal to the temp name of this call
OutgridValues == {None, "", UserPath, TmpName}

OtherValues == [increment |-> "1/1", region |-> "0/10/0/5", verbose |-> "q",
                tension |-> "0.5"]

LongNames == {"outgrid", "increment", "region", "verbose", "tension"}

Tables == {"matrix_data", "file_name", "grid_data", "no_data"}

\* every subset of the keys, outgrid taking each of its values
ValidOpts ==
    { [k \in S |-> IF k = "outgrid" THEN g ELSE OtherValues[k]] :
        S \in SUBSET LongNames, g \in OutgridValues }

---------------------------------------------------------------------------
(* Helpers imported by the module *)

\* @use_alias(G="outgrid", I="increment", R="region", V="verbose")
Aliases == [outgrid |-> "G", increment |-> "I", region |-> "R", verbose |-> "V"]

\* a faulty variant of UnknownKeys: no key is ever refused
UnknownKeysNone(o) == {}

\* the keys outside the allow-list of the aliases
UnknownKeys(o) == DOMAIN o \ DOMAIN Aliases

\* the short form of a key; a key with no alias keeps its name
ShortForm(k) == IF k \in DOMAIN Aliases THEN Aliases[k] ELSE k

use_alias(o) ==
    [a \in {ShortForm(k) : k \in DOMAIN o} |->
        o[CHOOSE k \in DOMAIN o : ShortForm(k) = a]]

\* data_kind(table): the kind, or "invalid" when it raises GMTInvalidInput
data_kind(t) ==
    CASE t = "matrix_data" -> "matrix"
      [] t = "file_name"   -> "file"
      [] t = "grid_data"   -> "grid"
      [] OTHER             -> "invalid"

\* build_arg_string(kwargs): one token per key whose value is not None
build_arg_string(kw) == {<<k, kw[k]>> : k \in {j \in DOMAIN kw : kw[j] # None}}

\* the file the module writes: the argument of -G when it names a file
ModuleOutput(args) ==
    IF \E t \in args : t[1] = "G" /\ t[2] \in Paths
    THEN {t[2] : t \in {u \in args : u[1] = "G"}}
    ELSE {}

\* GMTTempFile.__init__ creates an empty file, __exit__ removes it
GMTTempFile_enter(f) == [f EXCEPT ![TmpName] = Empty]

GMTTempFile_exit(f) == [f EXCEPT ![TmpName] = Absent]

InLog(e) == \E i \in 1..Len(log) : log[i] = e

---------------------------------------------------------------------------
Init ==
    /\ pc = "idle"
    /\ opts = <<>>
    /\ table = "no_data"
    /\ kwargs = <<>>
    /\ kind = Unset
    /\ outgrid = Unset
    /\ arg_str = {}
    /\ fs = [p \in Paths |-> Absent]
    /\ sessionOpen = FALSE
    /\ vfOpen = FALSE
    /\ gridOpen = FALSE
    /\ result = Unset
    /\ exc = NoExc
    /\ invoked = 0
    /\ log = <<>>
    /\ ncalls = 0

\* The caller calls sphinterpolate(table, **opts); the decorators run first.
Call ==
    /\ pc = "idle"
    /\ ncalls < MaxCalls
    /\ \E o \in ValidOpts, t \in Tables :
        /\ opts' = o
        /\ table' = t
        /\ IF UnknownKeys(o) # {}
           THEN /\ exc' = "GMTInvalidInput"
                /\ pc' = "Failed"
                /\ kwargs' = <<>>
           ELSE /\ exc' = NoExc
                /\ pc' = "l56"
                /\ kwargs' = use_alias(o)
    /\ ncalls' = ncalls + 1
    /\ kind' = Unset /\ outgrid' = Unset /\ arg_str' = {}
    /\ result' = Unset /\ invoked' = 0 /\ log' = <<>>
    /\ UNCHANGED <<fs, sessionOpen, vfOpen, gridOpen>>

\* a faulty variant of DataKind: the classification is computed, its failure dropped
DataKindIgnored ==
    /\ pc = "l56"
    /\ kind' = data_kind(table)
    /\ pc' = "l57"
    /\ UNCHANGED <<opts, table, kwargs, outgrid, arg_str, fs, sessionOpen,
                   vfOpen, gridOpen, result, exc, invoked, log, ncalls>>

\* line 56: kind = data_kind(table)
DataKind ==
    /\ pc = "l56"
    /\ kind' = data_kind(table)
    /\ IF data_kind(table) = "invalid"
       THEN /\ exc' = "GMTInvalidInput"
            /\ pc' = "Failed"
       ELSE /\ pc' = "l57"
            /\ UNCHANGED exc
    /\ UNCHANGED <<opts, table, kwargs, outgrid, arg_str, fs, sessionOpen,
                   vfOpen, gridOpen, result, invoked, log, ncalls>>

\* line 57: with GMTTempFile(suffix=".nc") as tmpfile
EnterTempFile ==
    /\ pc = "l57"
    /\ fs' = GMTTempFile_enter(fs)
    /\ log' = Append(log, "tmp_create")
    /\ pc' = "l58"
    /\ UNCHANGED <<opts, table, kwargs, kind, outgrid, arg_str, sessionOpen,
                   vfOpen, gridOpen, result, exc, invoked, ncalls>>

\* line 58: with Session() as lib
EnterSession ==
    /\ pc = "l58"
    /\ sessionOpen' = TRUE
    /\ log' = Append(log, "session_open")
    /\ pc' = "l59"
    /\ UNCHANGED <<opts, table, kwargs, kind, outgrid, arg_str, fs,
                   vfOpen, gridOpen, result, exc, invoked, ncalls>>

\* lines 59-60: lib.virtualfile_from_data(check_kind="vector", data=table),
\* entered as infile; a grid is not vector data and is refused
VirtualfileFromData ==
    /\ pc = "l59"
    /\ IF kind = "grid"
       THEN /\ exc' = "GMTInvalidInput"
            /\ pc' = "x58"
            /\ UNCHANGED <<vfOpen, log>>
       ELSE /\ vfOpen' = TRUE
            /\ log' = Append(log, "vf_open")
            /\ pc' = "l61"
            /\ UNCHANGED exc
    /\ UNCHANGED <<opts, table, kwargs, kind, outgrid, arg_str, fs,
                   sessionOpen, gridOpen, result, invoked, ncalls>>

\* a faulty variant of SetOutgrid: the temp name always replaces the output
SetOutgridAlways ==
    /\ pc = "l61"
    /\ kwargs' = [k \in DOMAIN kwargs \cup {"G"} |->
                    IF k = "G" THEN TmpName ELSE kwargs[k]]
    /\ outgrid' = TmpName
    /\ pc' = "l64"
    /\ UNCHANGED <<opts, table, kind, arg_str, fs, sessionOpen, vfOpen,
                   gridOpen, result, exc, invoked, log, ncalls>>

\* lines 61-63: if "G" not in kwargs.keys(): kwargs.update({"G": tmpfile.name})
\*              outgrid = kwargs["G"]
SetOutgrid ==
    /\ pc = "l61"
    /\ kwargs' = IF "G" \notin DOMAIN kwargs
                 THEN [k \in DOMAIN kwargs \cup {"G"} |->
                         IF k = "G" THEN TmpName ELSE kwargs[k]]
                 ELSE kwargs
    /\ outgrid' = kwargs'["G"]
    /\ pc' = "l64"
    /\ UNCHANGED <<opts, table, kind, arg_str, fs, sessionOpen, vfOpen,
                   gridOpen, result, exc, invoked, log, ncalls>>

\* lines 64-65: arg_str = " ".join([infile, build_arg_string(kwargs)])
BuildArgString ==
    /\ pc = "l64"
    /\ arg_str' = {<<"infile", "@GMTAPI@-000000">>} \cup build_arg_string(kwargs)
    /\ pc' = "l66"
    /\ UNCHANGED <<opts, table, kwargs, kind, outgrid, fs, sessionOpen, vfOpen,
                   gridOpen, result, exc, invoked, log, ncalls>>

\* a faulty variant of CallModule: a failed call is tried a second time
CallModuleRetry ==
    /\ pc = "l66"
    /\ invoked' = invoked + 1
    /\ \E ok \in BOOLEAN :
        IF ok
        THEN /\ fs' = [p \in Paths |->
                         IF p \in ModuleOutput(arg_str) THEN Grid ELSE fs[p]]
             /\ log' = Append(log, "module_ok")
             /\ pc' = "x60"
             /\ UNCHANGED exc
        ELSE /\ fs' = fs
             /\ log' = Append(log, "module_failed")
             /\ IF invoked = 0
                THEN pc' = "l66" /\ UNCHANGED exc
                ELSE pc' = "x60" /\ exc' = "GMTCLibError"
    /\ UNCHANGED <<opts, table, kwargs, kind, outgrid, arg_str, sessionOpen,
                   vfOpen, gridOpen, result, ncalls>>

\* line 66: lib.call_module("sphinterpolate", arg_str).  The module either
\* succeeds, leaving the grid in the file -G names, or reports failure
\* (raised as GMTCLibError), leaving that file as it was or partly written.
CallModule ==
    /\ pc = "l66"
    /\ invoked' = invoked + 1
    /\ \E ok \in BOOLEAN, wrote \in BOOLEAN :
        IF ok
        THEN /\ fs' = [p \in Paths |->
                         IF p \in ModuleOutput(arg_str) THEN Grid ELSE fs[p]]
             /\ log' = Append(log, "module_ok")
             /\ UNCHANGED exc
        ELSE /\ fs' = [p \in Paths |->
                         IF wrote /\ p \in ModuleOutput(arg_str)
                         THEN Partial ELSE fs[p]]
             /\ log' = Append(log, "module_failed")
             /\ exc' = "GMTCLibError"
    /\ pc' = "x60"
    /\ UNCHANGED <<opts, table, kwargs, kind, outgrid, arg_str, sessionOpen,
                   vfOpen, gridOpen, result, ncalls>>

\* exit of the with-block of line 60 (normal or by exception)
ExitVirtualfile ==
    /\ pc = "x60"
    /\ vfOpen' = FALSE
    /\ log' = Append(log, "vf_release")
    /\ pc' = "x58"
    /\ UNCHANGED <<opts, table, kwargs, kind, outgrid, arg_str, fs,
                   sessionOpen, gridOpen, result, exc, invoked, ncalls>>

\* a faulty variant of ExitSession: the session is closed on the normal path only
ExitSessionNoFinally ==
    /\ pc = "x58"
    /\ IF exc = NoExc
       THEN sessionOpen' = FALSE /\ log' = Append(log, "session_close")
       ELSE UNCHANGED <<sessionOpen, log>>
    /\ pc' = IF exc = NoExc THEN "l68" ELSE "x57"
    /\ UNCHANGED <<opts, table, kwargs, kind, outgrid, arg_str, fs,
                   vfOpen, gridOpen, result, exc, invoked, ncalls>>

\* exit of the with-block of line 58 (normal or by exception)
ExitSession ==
    /\ pc = "x58"
    /\ sessionOpen' = FALSE
    /\ log' = Append(log, "session_close")
    /\ pc' = IF exc = NoExc THEN "l68" ELSE "x57"
    /\ UNCHANGED <<opts, table, kwargs, kind, outgrid, arg_str, fs,
                   vfOpen, gridOpen, result, exc, invoked, ncalls>>

\* a faulty variant of Branch: outgrid is taken as set whenever the caller named it
BranchOnCallerKey ==
    /\ pc = "l68"
    /\ IF "outgrid" \notin DOMAIN opts
       THEN /\ pc' = "l69"
            /\ UNCHANGED result
       ELSE /\ result' = None
            /\ pc' = "x57"
    /\ UNCHANGED <<opts, table, kwargs, kind, outgrid, arg_str, fs, sessionOpen,
                   vfOpen, gridOpen, exc, invoked, log, ncalls>>

\* lines 68, 72-73: if outgrid == tmpfile.name ... else: result = None
Branch ==
    /\ pc = "l68"
    /\ IF outgrid = TmpName
       THEN /\ pc' = "l69"
            /\ UNCHANGED result
       ELSE /\ result' = None
            /\ pc' = "x57"
    /\ UNCHANGED <<opts, table, kwargs, kind, outgrid, arg_str, fs, sessionOpen,
                   vfOpen, gridOpen, exc, invoked, log, ncalls>>

\* line 69: with xr.open_dataarray(outgrid) as dataarray
OpenDataarray ==
    /\ pc = "l69"
    /\ IF fs[outgrid] = Grid
       THEN /\ gridOpen' = TRUE
            /\ log' = Append(log, "grid_open")
            /\ pc' = "l70"
            /\ UNCHANGED exc
       ELSE /\ exc' = "IOError"
            /\ pc' = "x57"
            /\ UNCHANGED <<gridOpen, log>>
    /\ UNCHANGED <<opts, table, kwargs, kind, outgrid, arg_str, fs, sessionOpen,
                   vfOpen, result, invoked, ncalls>>

\* a faulty variant of LoadDataarray: the .load() is left out, the array stays lazy
LoadDataarrayLazy ==
    /\ pc = "l70"
    /\ result' = "LazyDataArray"
    /\ pc' = "x69"
    /\ UNCHANGED <<opts, table, kwargs, kind, outgrid, arg_str, fs, sessionOpen,
                   vfOpen, gridOpen, exc, invoked, log, ncalls>>

\* lines 70-71: result = dataarray.load(); _ = result.gmt
LoadDataarray ==
    /\ pc = "l70"
    /\ result' = "DataArray"
    /\ log' = Append(log, "grid_load")
    /\ pc' = "x69"
    /\ UNCHANGED <<opts, table, kwargs, kind, outgrid, arg_str, fs, sessionOpen,
                   vfOpen, gridOpen, exc, invoked, ncalls>>

\* exit of the with-block of line 69
CloseDataarray ==
    /\ pc = "x69"
    /\ gridOpen' = FALSE
    /\ pc' = "x57"
    /\ UNCHANGED <<opts, table, kwargs, kind, outgrid, arg_str, fs, sessionOpen,
                   vfOpen, result, exc, invoked, log, ncalls>>

\* a faulty variant of ExitTempFile: the temp file is never removed
ExitTempFileLeak ==
    /\ pc = "x57"
    /\ pc' = IF exc = NoExc THEN "Completed" ELSE "Failed"
    /\ result' = IF exc = NoExc THEN result ELSE Unset
    /\ UNCHANGED <<opts, table, kwargs, kind, outgrid, arg_str, fs, sessionOpen,
                   vfOpen, gridOpen, exc, invoked, log, ncalls>>

\* a faulty variant of ExitTempFile: the temp file is removed on the normal path only
ExitTempFileNoFinally ==
    /\ pc = "x57"
    /\ IF exc = NoExc
       THEN fs' = GMTTempFile_exit(fs) /\ log' = Append(log, "tmp_delete")
       ELSE UNCHANGED <<fs, log>>
    /\ pc' = IF exc = NoExc THEN "Completed" ELSE "Failed"
    /\ result' = IF exc = NoExc THEN result ELSE Unset
    /\ UNCHANGED <<opts, table, kwargs, kind, outgrid, arg_str, sessionOpen,
                   vfOpen, gridOpen, exc, invoked, ncalls>>

\* exit of the with-block of line 57: by `return result` (line 75) or by an
\* exception; an exception hands no result to the caller
ExitTempFile ==
    /\ pc = "x57"
    /\ fs' = GMTTempFile_exit(fs)
    /\ log' = Append(log, "tmp_delete")
    /\ pc' = IF exc = NoExc THEN "Completed" ELSE "Failed"
    /\ result' = IF exc = NoExc THEN result ELSE Unset
    /\ UNCHANGED <<opts, table, kwargs, kind, outgrid, arg_str, sessionOpen,
                   vfOpen, gridOpen, exc, invoked, ncalls>>

\* the call is over; the caller may call again on the same file system
Return ==
    /\ pc \in {"Completed", "Failed"}
    /\ ncalls < MaxCalls
    /\ pc' = "idle"
    /\ UNCHANGED <<opts, table, kwargs, kind, outgrid, arg_str, fs, sessionOpen,
                   vfOpen, gridOpen, result, exc, invoked, log, ncalls>>

Next ==
    \/ Call
    \/ DataKind
    \/ EnterTempFile
    \/ EnterSession
    \/ VirtualfileFromData
    \/ SetOutgrid
    \/ BuildArgString
    \/ CallModule
    \/ ExitVirtualfile
    \/ ExitSession
    \/ Branch
    \/ OpenDataarray
    \/ LoadDataarray
    \/ CloseDataarray
    \/ ExitTempFile
    \/ Return

Spec == Init /\ [][Next]_vars

---------------------------------------------------------------------------
(* The caller's side of a call *)

Over == pc \in {"Completed", "Failed"}

NoOutgrid == "outgrid" \notin DOMAIN opts

OutgridIs(v) == "outgrid" \in DOMAIN opts /\ opts["outgrid"] = v

\* the file the caller named holds a grid
Populated ==
    /\ "outgrid" \in DOMAIN opts
    /\ opts["outgrid"] \in Paths
    /\ fs[opts["outgrid"]] = Grid

---------------------------------------------------------------------------
(* C1: a call without outgrid in which the module succeeds returns a      *)
(* DataArray, and the temp file is gone once the call is over.            *)
C1_GridReturnedTempGone ==
    (NoOutgrid /\ InLog("module_ok") /\ Over) =>
        /\ pc = "Completed"
        /\ result = "DataArray"
        /\ fs[TmpName] = Absent

C1_Witness ==
    /\ pc = "Completed" /\ NoOutgrid /\ result = "DataArray"
    /\ InLog("tmp_create") /\ fs[TmpName] = Absent

(* C2: a call with outgrid set to a path P, the module succeeding,        *)
(* returns None and leaves the grid at P.                                 *)
C2_NoneReturnedFileKept ==
    (pc = "Completed" /\ "outgrid" \in DOMAIN opts /\ opts["outgrid"] \in Paths) =>
        /\ result = None
        /\ fs[opts["outgrid"]] = Grid

(* C3: after a successful call exactly one holds: a grid was returned in  *)
(* memory, or the output path is populated on disk.                       *)
C3_ExactlyOne ==
    pc = "Completed" => ((result = "DataArray") # Populated)

(* C4: when the module reports failure the call fails with the module's   *)
(* error, hands back no grid, and the temp file is gone when the error    *)
(* reaches the caller.                                                    *)
C4_ModuleFailure ==
    InLog("module_failed") =>
        /\ pc # "Completed"
        /\ exc = "GMTCLibError"
        /\ result = Unset
        /\ (pc = "Failed" => fs[TmpName] = Absent)

C4_Witness ==
    /\ pc = "Failed" /\ exc = "GMTCLibError" /\ InLog("module_failed")
    /\ InLog("tmp_create") /\ fs[TmpName] = Absent

(* C5 as claimed: with an output path given by the caller no temp file    *)
(* exists at any point of the call.                                       *)
C5_NoTempFileEver ==
    OutgridIs(UserPath) => fs[TmpName] = Absent

(* C5 as amended: with an output path given by the caller (other than the *)
(* temp name) the temp file is still created, but the module never        *)
(* writes to it and it is removed by the end of the call.                 *)
C5_TempUnusedAndRemoved ==
    OutgridIs(UserPath) =>
        /\ fs[TmpName] \in {Absent, Empty}
        /\ (InLog("tmp_create") /\ ~InLog("tmp_delete") => fs[TmpName] = Empty)
        /\ (Over => fs[TmpName] = Absent)
        /\ (pc = "Completed" => InLog("tmp_create") /\ InLog("tmp_delete"))

C5_Witness ==
    /\ OutgridIs(UserPath) /\ pc = "Completed"
    /\ InLog("tmp_create") /\ InLog("module_ok") /\ fs[UserPath] = Grid

(* C6: an option key outside {outgrid, increment, region, verbose} makes  *)
(* the call fail with GMTInvalidInput, the module not invoked.            *)
C6_UnknownKeyRejected ==
    (pc # "idle" /\ DOMAIN opts \ {"outgrid", "increment", "region", "verbose"} # {}) =>
        /\ pc = "Failed"
        /\ exc = "GMTInvalidInput"
        /\ invoked = 0
        /\ log = <<>>

C6_Witness ==
    /\ pc = "Failed" /\ "tension" \in DOMAIN opts /\ table = "matrix_data"
    /\ exc = "GMTInvalidInput"

(* C7: the module is invoked at most once per call, exactly once in a     *)
(* call that completes; after a failure there is no second invocation     *)
(* and the call ends failed.                                              *)
C7_InvokedOnce ==
    /\ invoked <= 1
    /\ (pc = "Completed" => invoked = 1 /\ InLog("module_ok"))
    /\ (InLog("module_failed") => invoked = 1 /\ ~InLog("module_ok") /\ pc # "l66")
    /\ (InLog("module_failed") /\ Over => pc = "Failed")

C7_Witness ==
    pc = "Failed" /\ InLog("module_failed") /\ invoked = 1

(* C8: however the call ends, the session and the virtual file that were  *)
(* acquired have been released.                                           *)
C8_ScopedRelease ==
    Over =>
        /\ ~sessionOpen
        /\ ~vfOpen
        /\ (InLog("session_open") => InLog("session_close"))
        /\ (InLog("vf_open") => InLog("vf_release"))

C8_Witness ==
    /\ pc = "Failed" /\ exc = "GMTCLibError"
    /\ InLog("session_open") /\ InLog("vf_open") /\ ~sessionOpen /\ ~vfOpen

(* C9: a table that cannot be classified fails the call with              *)
(* GMTInvalidInput at the classification, the first step: no temp file,   *)
(* no session, no module invocation.                                      *)
C9_UnclassifiableFailsFirst ==
    /\ (pc = "l56" =>
            log = <<>> /\ fs[TmpName] = Absent /\ ~sessionOpen /\ invoked = 0)
    /\ (table = "no_data" /\ pc \notin {"idle", "l56"} =>
            /\ pc = "Failed"
            /\ exc = "GMTInvalidInput"
            /\ log = <<>>
            /\ fs[TmpName] = Absent
            /\ ~sessionOpen
            /\ invoked = 0)

C9_Witness ==
    /\ pc = "Failed" /\ table = "no_data" /\ kind = "invalid"
    /\ exc = "GMTInvalidInput"

(* C10: without outgrid the steps come in this order: module call,        *)
(* virtual file released, session closed, grid file opened and loaded,    *)
(* temp file deleted; never deleted before the grid is in memory, never   *)
(* read before the module call and the release of the virtual file.       *)
C10_Order ==
    NoOutgrid =>
        /\ (gridOpen \/ InLog("grid_open") =>
                InLog("module_ok") /\ InLog("vf_release") /\ ~vfOpen /\ ~sessionOpen)
        /\ (InLog("tmp_delete") /\ exc = NoExc =>
                result = "DataArray" /\ InLog("grid_load") /\ ~gridOpen)
        /\ (pc = "Completed" =>
                log = <<"tmp_create", "session_open", "vf_open", "module_ok",
                        "vf_release", "session_close", "grid_open", "grid_load",
                        "tmp_delete">>)

C10_Witness ==
    /\ pc = "Completed" /\ NoOutgrid /\ opts = <<>>
    /\ InLog("grid_load") /\ InLog("tmp_delete")
=============================================================================
